---- MODULE Spec2Model ----
(***************************************************************************)
(* Model of minitorch/datasets.py: the random point generator make_pts,    *)
(* the six dataset generators and the name -> generator registry.          *)
(*                                                                         *)
(* Numbers.  A Python float is modelled as a fixed-point integer counting  *)
(* thousandths: 0.5 is 500, 0.1 is 100, and the product of two values is   *)
(* divided by 1000.  math.cos and math.sin are computed by range reduction *)
(* and their power series in the same fixed-point arithmetic.              *)
(*                                                                         *)
(* Randomness.  The module-level generator of Python's random module is a  *)
(* deterministic stream fixed by its seed: `tape` is the stream of values  *)
(* random.random() will return and proc[r].rng is how many of them process *)
(* r has consumed.  Two processes seeded alike share the tape.             *)
(***************************************************************************)
EXTENDS Integers, Sequences, FiniteSets, TLC

VARIABLES tape, proc, datasets

vars == <<tape, proc, datasets>>

(* ------------------------------ bounds -------------------------------- *)

\* Length of a coarse tape (draws available to one process).
TapeLen == 4
\* Length of a fine-grid tape.
GridLen == 2
\* Largest count N passed to a generator (besides the spec's example, 10).
MaxN == 4

Coarse == {100, 500, 900}
Grid == {0, 100, 200, 300, 400, 500, 600, 700, 800, 900}
Binary == {200, 900}
Counts == (0..MaxN) \cup {10}
Names == {"Simple", "Diag", "Split", "Xor", "Circle", "Spiral", "bogus", "xor"}
Procs == {1, 2}

(* --------------------------- record types ----------------------------- *)

\* Graph(N, X, y): the dataclass instance a generator returns.
Graph(N, X, y) ==
    [kind |-> "Graph", N |-> N, X |-> X, y |-> y]

\* An exception that leaves the call without a Graph.
Raised(exc) ==
    [kind |-> exc, N |-> 0, X |-> <<>>, y |-> <<>>]

NoCall == [fn |-> "none", N |-> 0]

\* A fresh interpreter: nothing drawn, nothing called, nothing returned.
Fresh ==
    [rng |-> 0, pre |-> 0, call |-> NoCall, out |-> Raised("none")]

(* ------------------------------ make_pts ------------------------------ *)

\* random.random(): the next value of the stream after s draws.
Draw(s) ==
    IF s + 1 <= Len(tape) THEN tape[s + 1] ELSE 0

\* The loop body of make_pts run for i = done .. N-1.
RECURSIVE make_pts_loop(_, _, _, _)
make_pts_loop(N, done, X, s) ==
    IF done >= N
    THEN [X |-> X, rng |-> s]
    ELSE LET x_1 == Draw(s)
             x_2 == Draw(s + 1)
         IN make_pts_loop(N, done + 1, Append(X, <<x_1, x_2>>), s + 2)

\* make_pts with its loop written range(1, N): one point short.
make_pts_short(P, N) ==
    make_pts_loop(N, 1, <<>>, P.rng)

\* make_pts with X a mutable default argument: the list of the previous call
\* (still referenced by the Graph it was returned in) is appended to.
make_pts_shared(P, N) ==
    make_pts_loop(N, 0, P.out.X, P.rng)

\* make_pts drawing x_2 before x_1.
make_pts_x2_first(P, N) ==
    LET m == make_pts_loop(N, 0, <<>>, P.rng)
    IN [X |-> [k \in 1..Len(m.X) |-> <<m.X[k][2], m.X[k][1]>>], rng |-> m.rng]

make_pts(P, N) ==
    make_pts_loop(N, 0, <<>>, P.rng)

(* --------------------------- label rules ------------------------------ *)

simple_label(x_1, x_2) ==
    IF x_1 < 500 THEN 1 ELSE 0

diag_label(x_1, x_2) ==
    IF x_1 + x_2 < 500 THEN 1 ELSE 0

split_label(x_1, x_2) ==
    IF x_1 < 200 \/ x_1 > 800 THEN 1 ELSE 0

xor_label(x_1, x_2) ==
    IF (x_1 < 500 /\ x_2 > 500) \/ (x_1 > 500 /\ x_2 < 500) THEN 1 ELSE 0

\* The circle rule with >= for >.
circle_label_ge(x_1, x_2) ==
    IF (x_1 - 500) * (x_1 - 500) + (x_2 - 500) * (x_2 - 500) >= 100000
    THEN 1 ELSE 0

\* (x_1 - 0.5)^2 + (x_2 - 0.5)^2 > 0.1, both sides in millionths.
circle_label(x_1, x_2) ==
    IF (x_1 - 500) * (x_1 - 500) + (x_2 - 500) * (x_2 - 500) > 100000
    THEN 1 ELSE 0

(* ------------------------ non-spiral generators ----------------------- *)

simple(P, N) ==
    LET m == make_pts(P, N)
        y == [k \in 1..Len(m.X) |-> simple_label(m.X[k][1], m.X[k][2])]
    IN [rng |-> m.rng, out |-> Graph(N, m.X, y)]

diag(P, N) ==
    LET m == make_pts(P, N)
        y == [k \in 1..Len(m.X) |-> diag_label(m.X[k][1], m.X[k][2])]
    IN [rng |-> m.rng, out |-> Graph(N, m.X, y)]

split(P, N) ==
    LET m == make_pts(P, N)
        y == [k \in 1..Len(m.X) |-> split_label(m.X[k][1], m.X[k][2])]
    IN [rng |-> m.rng, out |-> Graph(N, m.X, y)]

xor(P, N) ==
    LET m == make_pts(P, N)
        y == [k \in 1..Len(m.X) |-> xor_label(m.X[k][1], m.X[k][2])]
    IN [rng |-> m.rng, out |-> Graph(N, m.X, y)]

circle(P, N) ==
    LET m == make_pts(P, N)
        y == [k \in 1..Len(m.X) |-> circle_label(m.X[k][1], m.X[k][2])]
    IN [rng |-> m.rng, out |-> Graph(N, m.X, y)]

(* ------------------------------ spiral -------------------------------- *)

\* t reduced to (-pi, pi], in thousandths.
Reduce(t) ==
    LET r == t % 6283
    IN IF r > 3142 THEN r - 6283 ELSE r

\* Sum of the power series whose k-th term is term; the next term is
\* -term * r2 / ((n + 1) * (n + 2)), n being the degree of term.
RECURSIVE Series(_, _, _, _)
Series(term, r2, n, left) ==
    IF left = 0
    THEN 0
    ELSE term + Series((0 - ((term * r2) \div 1000)) \div ((n + 1) * (n + 2)),
                       r2, n + 2, left - 1)

\* math.cos(t), in thousandths.
Cos(t) ==
    LET r == Reduce(t)
    IN Series(1000, (r * r) \div 1000, 0, 9)

\* math.sin(t), in thousandths.
Sin(t) ==
    LET r == Reduce(t)
    IN Series(r, (r * r) \div 1000, 1, 9)

\* The local helper x(t) of spiral: t * math.cos(t) / 20.0.
spiral_x(t) ==
    ((t * Cos(t)) \div 1000) \div 20

\* The local helper y(t) of spiral: t * math.sin(t) / 20.0.
spiral_y(t) ==
    ((t * Sin(t)) \div 1000) \div 20

\* range(lo, hi) as a sequence.
Range(lo, hi) ==
    [k \in 1..(IF hi > lo THEN hi - lo ELSE 0) |-> lo + k - 1]

\* float(i) / h, evaluated only where h # 0.
FloatDiv(i, h) ==
    (i * 1000) \div h

\* Arm A: the first list comprehension of spiral.
spiral_armA(h) ==
    LET idx == Range(5, 5 + h)
    IN [k \in 1..Len(idx) |->
          <<spiral_x(10 * FloatDiv(idx[k], h)) + 500,
            spiral_y(10 * FloatDiv(idx[k], h)) + 500>>]

\* Arm B with the helpers in the order arm A uses them.
spiral_armB_unswapped(h) ==
    LET idx == Range(5, 5 + h)
    IN [k \in 1..Len(idx) |->
          <<spiral_x((0 - 10) * FloatDiv(idx[k], h)) + 500,
            spiral_y((0 - 10) * FloatDiv(idx[k], h)) + 500>>]

\* Arm B: the second list comprehension of spiral.
spiral_armB(h) ==
    LET idx == Range(5, 5 + h)
    IN [k \in 1..Len(idx) |->
          <<spiral_y((0 - 10) * FloatDiv(idx[k], h)) + 500,
            spiral_x((0 - 10) * FloatDiv(idx[k], h)) + 500>>]

\* [v] * n
Repeat(v, n) ==
    [k \in 1..n |-> v]

\* N // 2
Half(N) ==
    N \div 2

\* The division by N // 2 hoisted out of the comprehensions: it is evaluated
\* whether or not the range is empty.
spiral_raises_hoisted(N) ==
    Half(N) = 0

\* Whether some iteration of a comprehension divides by zero.
spiral_raises(N) ==
    \E k \in 1..Len(Range(5, 5 + Half(N))) : Half(N) = 0

\* spiral labelling the second arm [1] * (N - N // 2).
spiral_body_odd(N) ==
    IF Half(N) = 0
    THEN Graph(N, <<>>, Repeat(1, N))
    ELSE LET X  == spiral_armA(Half(N)) \o spiral_armB(Half(N))
             y2 == Repeat(0, Half(N)) \o Repeat(1, N - Half(N))
         IN Graph(N, X, y2)

\* What spiral(N) returns or raises; it reads nothing but N.
spiral_body(N) ==
    IF spiral_raises(N)
    THEN Raised("ZeroDivisionError")
    ELSE LET X  == spiral_armA(Half(N)) \o spiral_armB(Half(N))
             y2 == Repeat(0, Half(N)) \o Repeat(1, Half(N))
         IN Graph(N, X, y2)

\* spiral_body tabulated over the counts the model passes.
spiral_table ==
    [N \in Counts |-> spiral_body(N)]

\* spiral jittering its points with one draw from the random source.
spiral_jitter(P, N) ==
    LET g == spiral_table[N]
        j == Draw(P.rng) \div 100
    IN [rng |-> P.rng + 1,
        out |-> [g EXCEPT !.X = [k \in 1..Len(g.X) |-> <<g.X[k][1] + j, g.X[k][2]>>]]]

spiral(P, N) ==
    [rng |-> P.rng, out |-> spiral_table[N]]

(* ----------------------------- registry ------------------------------- *)

\* The registry with 'Xor' bound to diag.
Registry_xor_diag ==
    [n \in {"Simple", "Diag", "Split", "Xor", "Circle", "Spiral"} |->
        CASE n = "Simple" -> "simple"
          [] n = "Diag"   -> "diag"
          [] n = "Split"  -> "split"
          [] n = "Xor"    -> "diag"
          [] n = "Circle" -> "circle"
          [] n = "Spiral" -> "spiral"]

\* The registry with the key 'xor' written in lower case.
Registry_lower ==
    [n \in {"Simple", "Diag", "Split", "xor", "Circle", "Spiral"} |->
        CASE n = "Simple" -> "simple"
          [] n = "Diag"   -> "diag"
          [] n = "Split"  -> "split"
          [] n = "xor"    -> "xor"
          [] n = "Circle" -> "circle"
          [] n = "Spiral" -> "spiral"]

\* The literal the module binds to `datasets`.
Registry ==
    [n \in {"Simple", "Diag", "Split", "Xor", "Circle", "Spiral"} |->
        CASE n = "Simple" -> "simple"
          [] n = "Diag"   -> "diag"
          [] n = "Split"  -> "split"
          [] n = "Xor"    -> "xor"
          [] n = "Circle" -> "circle"
          [] n = "Spiral" -> "spiral"]

\* Calling the function object fn with N.
Apply(fn, P, N) ==
    CASE fn = "simple" -> simple(P, N)
      [] fn = "diag"   -> diag(P, N)
      [] fn = "split"  -> split(P, N)
      [] fn = "xor"    -> xor(P, N)
      [] fn = "circle" -> circle(P, N)
      [] fn = "spiral" -> spiral(P, N)

\* The process after calling fn(N): the source as the call left it, the call
\* made, the source as the call found it, and what the call returned.
Invoke(P, fn, N) ==
    LET r == Apply(fn, P, N)
    IN [rng |-> r.rng, pre |-> P.rng, call |-> [fn |-> fn, N |-> N], out |-> r.out]

\* datasets[name]: whether the subscription succeeds.
Resolves(reg, name) ==
    name \in DOMAIN reg

\* datasets[name](N): the lookup raises KeyError for an absent key, before
\* anything is called.
generate_dataset(reg, P, name, N) ==
    IF Resolves(reg, name)
    THEN Invoke(P, reg[name], N)
    ELSE [rng |-> P.rng, pre |-> P.rng, call |-> NoCall, out |-> Raised("KeyError")]

(* ------------------------------ actions ------------------------------- *)

\* The tape holds the draws of a call of a random generator with N points.
Fits(P, N) ==
    P.rng + 2 * N <= Len(tape)

CallSimple(r) ==
    \E N \in Counts : 
        /\ Fits(proc[r], N)
        /\ proc' = [proc EXCEPT ![r] = Invoke(proc[r], "simple", N)]
        /\ UNCHANGED <<tape, datasets>>

CallDiag(r) ==
    \E N \in Counts : 
        /\ Fits(proc[r], N)
        /\ proc' = [proc EXCEPT ![r] = Invoke(proc[r], "diag", N)]
        /\ UNCHANGED <<tape, datasets>>

CallSplit(r) ==
    \E N \in Counts : 
        /\ Fits(proc[r], N)
        /\ proc' = [proc EXCEPT ![r] = Invoke(proc[r], "split", N)]
        /\ UNCHANGED <<tape, datasets>>

CallXor(r) ==
    \E N \in Counts : 
        /\ Fits(proc[r], N)
        /\ proc' = [proc EXCEPT ![r] = Invoke(proc[r], "xor", N)]
        /\ UNCHANGED <<tape, datasets>>

CallCircle(r) ==
    \E N \in Counts : 
        /\ Fits(proc[r], N)
        /\ proc' = [proc EXCEPT ![r] = Invoke(proc[r], "circle", N)]
        /\ UNCHANGED <<tape, datasets>>

CallSpiral(r) ==
    \E N \in Counts :
        /\ proc' = [proc EXCEPT ![r] = Invoke(proc[r], "spiral", N)]
        /\ UNCHANGED <<tape, datasets>>

CallByName(r) ==
    \E name \in Names, N \in Counts :
        /\ (Resolves(datasets, name) /\ datasets[name] # "spiral") => Fits(proc[r], N)
        /\ proc' = [proc EXCEPT ![r] = generate_dataset(datasets, proc[r], name, N)]
        /\ UNCHANGED <<tape, datasets>>

Calls(r) ==
    \/ CallSimple(r)
    \/ CallDiag(r)
    \/ CallSplit(r)
    \/ CallXor(r)
    \/ CallCircle(r)
    \/ CallSpiral(r)
    \/ CallByName(r)

(* --------------------------- specifications --------------------------- *)

\* One process; the seed ranges over coarse tapes and fine-grid tapes.
Init ==
    /\ tape \in [1..TapeLen -> Coarse] \cup [1..GridLen -> Grid]
    /\ proc = [r \in Procs |-> Fresh]
    /\ datasets = Registry

Next ==
    Calls(1)

Spec ==
    Init /\ [][Next]_vars

\* Two processes started from the same seed, each making its own calls.
InitDet ==
    /\ tape \in [1..TapeLen -> Binary]
    /\ proc = [r \in Procs |-> Fresh]
    /\ datasets = Registry

NextDet ==
    \E r \in Procs : Calls(r)

SpecDet ==
    InitDet /\ [][NextDet]_vars

(* ------------------------------ claims -------------------------------- *)

NonSpiral == {"simple", "diag", "split", "xor", "circle"}

\* C1: a call of simple, diag, split, xor or circle with N >= 0 returns a
\* Graph whose count is N, whose points and labels both have length N, and
\* whose labels are all 0 or 1.
C1_Shape ==
    \A r \in Procs :
        LET P == proc[r]
        IN (P.call.fn \in NonSpiral /\ P.call.N >= 0) =>
              /\ P.out.kind = "Graph"
              /\ P.out.N = P.call.N
              /\ Len(P.out.X) = P.call.N
              /\ Len(P.out.y) = P.call.N
              /\ \A k \in 1..Len(P.out.y) : P.out.y[k] \in {0, 1}

\* C1 witness: circle(2) returned two points, one labelled 1 and one 0.
C1_Witness ==
    /\ proc[1].call = [fn |-> "circle", N |-> 2]
    /\ proc[1].out.kind = "Graph"
    /\ Len(proc[1].out.X) = 2
    /\ proc[1].out.y = <<1, 0>>

\* The rule of C2 for generator fn at the point (x1, x2), in thousandths.
C2_Rule(fn, x1, x2) ==
    CASE fn = "simple" -> x1 < 500
      [] fn = "diag"   -> x1 + x2 < 500
      [] fn = "split"  -> x1 < 200 \/ x1 > 800
      [] fn = "xor"    -> (x1 < 500 /\ x2 > 500) \/ (x1 > 500 /\ x2 < 500)
      [] fn = "circle" -> (x1 - 500) * (x1 - 500) + (x2 - 500) * (x2 - 500) > 100000

\* C2: in the Graph a non-spiral generator returns, labels[i] is 1 exactly
\* when points[i] satisfies the generator's rule and 0 otherwise, points on a
\* boundary included; the label is decided by the point at the same index.
C2_Labels ==
    \A r \in Procs :
        LET P == proc[r]
        IN (P.call.fn \in NonSpiral /\ P.out.kind = "Graph") =>
              /\ Len(P.out.y) = Len(P.out.X)
              /\ \A k \in 1..Len(P.out.X) :
                    P.out.y[k] =
                        IF C2_Rule(P.call.fn, P.out.X[k][1], P.out.X[k][2]) THEN 1 ELSE 0

\* C2 witness: circle labelled a point lying exactly on its boundary,
\* (0.2, 0.4), with 0.
C2_Witness ==
    /\ proc[1].call = [fn |-> "circle", N |-> 1]
    /\ proc[1].out.X = << <<200, 400>> >>
    /\ proc[1].out.y = <<0>>

C4_Registry ==
    /\ DOMAIN datasets = {"Simple", "Diag", "Split", "Xor", "Circle", "Spiral"}
    /\ datasets["Simple"] = "simple"
    /\ datasets["Diag"] = "diag"
    /\ datasets["Split"] = "split"
    /\ datasets["Xor"] = "xor"
    /\ datasets["Circle"] = "circle"
    /\ datasets["Spiral"] = "spiral"
    /\ \A N \in 0..1 :
          Fits(proc[1], N) =>
              /\ generate_dataset(datasets, proc[1], "Xor", N).out = xor(proc[1], N).out
              /\ generate_dataset(datasets, proc[1], "Simple", N).out = simple(proc[1], N).out
              /\ generate_dataset(datasets, proc[1], "Spiral", N + 2).out = spiral(proc[1], N + 2).out

\* C4 witness: generators have run (xor last, after an earlier call that drew
\* two values) and the registry still binds 'Xor' to xor.
C4_Witness ==
    /\ proc[1].call = [fn |-> "xor", N |-> 1]
    /\ proc[1].pre = 2
    /\ datasets["Xor"] = "xor"

\* What C5 says of names outside the key set: the lookup fails, no Graph is
\* produced and the random source is left as it was.
C5_UnknownFails ==
    /\ \A name \in Names \ {"Simple", "Diag", "Split", "Xor", "Circle", "Spiral"} :
          \A N \in Counts, r \in Procs :
              LET Q == generate_dataset(datasets, proc[r], name, N)
              IN /\ Q.out.kind = "KeyError"
                 /\ Q.rng = proc[r].rng
                 /\ Q.call = NoCall
    /\ \A r \in Procs :
          proc[r].out.kind = "KeyError" =>
              /\ proc[r].rng = proc[r].pre
              /\ proc[r].out.X = <<>>
              /\ proc[r].out.y = <<>>

\* C5 as stated: the registry has five keys, and generate_dataset fails for
\* every name outside them ("bogus", "xor"), producing no dataset and
\* consuming no randomness.
C5_Original ==
    /\ Cardinality(DOMAIN datasets) = 5
    /\ C5_UnknownFails

\* C5 amended: the registry has six keys, and generate_dataset fails for
\* every name outside them ("bogus", "xor"), producing no dataset and
\* consuming no randomness.
C5_Amended ==
    /\ Cardinality(DOMAIN datasets) = 6
    /\ C5_UnknownFails

\* C5 witness: a lookup failed after two values had been drawn, and the
\* source still stands at two.
C5_Witness ==
    /\ proc[1].out.kind = "KeyError"
    /\ proc[1].pre = 2
    /\ proc[1].rng = 2

\* C6: two processes started from the same seed that make the same call from
\* the same state of the random source get the same result and leave the
\* source in the same state, whatever else each did before.
C6_Deterministic ==
    (/\ proc[1].call.fn # "none"
     /\ proc[1].call = proc[2].call
     /\ proc[1].pre = proc[2].pre) =>
        /\ proc[1].out = proc[2].out
        /\ proc[1].rng = proc[2].rng

\* C6 witness: both processes called xor(1) with two values already drawn.
C6_Witness ==
    /\ proc[1].call = [fn |-> "xor", N |-> 1]
    /\ proc[2].call = [fn |-> "xor", N |-> 1]
    /\ proc[1].pre = 2
    /\ proc[2].pre = 2
    /\ proc[1].out.kind = "Graph"

\* The point of arm A that C7 gives for index i: t = 10 * (i / h).
C7_ArmA(i, h) ==
    LET t == 10 * ((i * 1000) \div h)
    IN <<((t * Cos(t)) \div 1000) \div 20 + 500, ((t * Sin(t)) \div 1000) \div 20 + 500>>

\* The point of arm B that C7 gives for index i: t = -10 * (i / h).
C7_ArmB(i, h) ==
    LET t == (0 - 10) * ((i * 1000) \div h)
    IN <<((t * Sin(t)) \div 1000) \div 20 + 500, ((t * Cos(t)) \div 1000) \div 20 + 500>>

\* C7: for N >= 2 and h = N // 2, point k of spiral(N) (k = 0..h-1) is the
\* arm A point of i = 5 + k, (t cos t / 20 + 0.5, t sin t / 20 + 0.5) with
\* t = 10 i / h, and point h + k is the arm B point of the same i,
\* (t sin t / 20 + 0.5, t cos t / 20 + 0.5) with t = -10 i / h; the first
\* point of spiral(10) uses t = 10.
C7_SpiralPoints ==
    \A r \in Procs :
        LET P == proc[r]
            h == P.call.N \div 2
        IN (P.call.fn = "spiral" /\ P.call.N >= 2) =>
              /\ \A k \in 0..(h - 1) :
                    /\ P.out.X[k + 1] = C7_ArmA(5 + k, h)
                    /\ P.out.X[h + k + 1] = C7_ArmB(5 + k, h)
              /\ (P.call.N = 10) =>
                    P.out.X[1] = <<(10000 * Cos(10000)) \div 20000 + 500,
                                   (10000 * Sin(10000)) \div 20000 + 500>>

\* C7 witness: spiral(4) returned four points, the two arms differing.
C7_Witness ==
    /\ proc[1].call = [fn |-> "spiral", N |-> 4]
    /\ Len(proc[1].out.X) = 4
    /\ proc[1].out.X[3] # proc[1].out.X[1]
    /\ proc[1].out.X[3] # <<proc[1].out.X[1][2], proc[1].out.X[1][1]>>

\* C8 as stated: for N < 2, spiral(N) fails with a division error instead of
\* returning a dataset.
C8_Original ==
    \A r \in Procs :
        (proc[r].call.fn = "spiral" /\ proc[r].call.N < 2) =>
            proc[r].out.kind = "ZeroDivisionError"

\* C8 amended: for N in {0, 1} (N // 2 = 0) the index range [5, 5 + N // 2)
\* is empty, so spiral(N) evaluates no division, raises nothing and returns a
\* dataset with count N and no points and no labels.
C8_Amended ==
    \A r \in Procs :
        (proc[r].call.fn = "spiral" /\ proc[r].call.N \in {0, 1}) =>
            proc[r].out = [kind |-> "Graph", N |-> proc[r].call.N, X |-> <<>>, y |-> <<>>]

\* C8 witness: spiral(1) returned a Graph.
C8_Witness ==
    /\ proc[1].call = [fn |-> "spiral", N |-> 1]
    /\ proc[1].out.kind = "Graph"
    /\ proc[1].out.N = 1

\* C9: a call of spiral leaves the random source as it found it, so every
\* random generator called after it returns what it would have returned
\* before it.
C9_SpiralFrame ==
    [][\A r \in Procs :
          (proc'[r] # proc[r] /\ proc'[r].call.fn = "spiral") =>
              /\ proc'[r].rng = proc[r].rng
              /\ \A fn \in NonSpiral, N \in 0..MaxN :
                    Fits(proc[r], N) =>
                        Apply(fn, proc'[r], N) = Apply(fn, proc[r], N)]_vars

\* C9 witness: spiral was called after a random generator had drawn two
\* values, and the source still stands at two.
C9_Witness ==
    /\ proc[1].call.fn = "spiral"
    /\ proc[1].out.kind = "Graph"
    /\ proc[1].pre = 2
    /\ proc[1].rng = 2

\* C10: a call of a random generator with N points advances the source by
\* exactly 2 N draws, and point i (from 0) is (draw 2 i, draw 2 i + 1)
\* counted from where the source stood when the call began, which is where
\* the previous call left it.
C10_Draws ==
    [][\A r \in Procs :
          (proc'[r] # proc[r] /\ proc'[r].call.fn \in NonSpiral) =>
              LET N == proc'[r].call.N
                  s == proc[r].rng
              IN /\ proc'[r].rng = s + 2 * N
                 /\ Len(proc'[r].out.X) = N
                 /\ \A i \in 0..(N - 1) :
                       proc'[r].out.X[i + 1] = <<tape[s + 2 * i + 1], tape[s + 2 * i + 2]>>
                 /\ (N = 0) => (proc'[r].rng = s /\ proc'[r].out.X = <<>>)]_vars

\* C10 witness: a second call drew the third and fourth values of the stream,
\* which differ.
C10_Witness ==
    /\ proc[1].call.fn \in NonSpiral
    /\ proc[1].call.N = 1
    /\ proc[1].pre = 2
    /\ proc[1].rng = 4
    /\ proc[1].out.X = << <<tape[3], tape[4]>> >>
    /\ tape[3] # tape[4]

====
